---- MODULE Spec2Model ----
(***************************************************************************)
(* Cache and sensitivity state machine of BaseIPSimulation                 *)
(* (SimPEG/electromagnetics/static/induced_polarization/simulation.py).    *)
(*                                                                         *)
(* Spec       : the cached attributes of one simulation instance (_f,      *)
(*              Ainv, _Jmatrix, _pred, model, the receivers' baseline      *)
(*              voltage and projection cache) under sequences of public    *)
(*              calls.  Python runs one call at a time, so one action is   *)
(*              one whole call, nested calls included.                     *)
(* SpecLayout : the column cursor of the full-matrix branch of _Jtvec and  *)
(*              the block order of Jvec over bounded surveys.              *)
(* SpecEquiv  : the values Jvec returns on its two paths, computed over    *)
(*              small integer matrices.                                    *)
(***************************************************************************)
EXTENDS Integers, Sequences, FiniteSets, TLC

VARIABLES sim, held, last, hist, lay, eq

vars == <<sim, held, last, hist, lay, eq>>

(* ------------------------------ bounds --------------------------------- *)

\* models are 0..MaxModel
MaxModel == 1

\* number of public calls in one behaviour
MaxCalls == 3

Models == 0..MaxModel

(* ------------------------------ values --------------------------------- *)

\* Python None
NoneV == [k |-> "None"]

\* the empty list getJ stores in self._f
EmptyList == [k |-> "list"]

\* a populated field object; m is the model argument of the fields call that solved it
FieldsObj(m) == [k |-> "Fields", m |-> m]

\* the value of self.model after self.model = m
Model(m) == [k |-> "model", v |-> m]

\* a vector argument: its value and whether its length fits (nC for Jvec, nD for Jtvec)
Vec(val, ok) == [val |-> val, ok |-> ok]

\* a factorization handle; cleaned after Ainv.clean()
Factorization(m) == [k |-> "Solver", m |-> m, cleaned |-> FALSE]

\* the survey of Spec: srcList, each source a rxList of observation counts rx.nD
srcList == <<  <<1, 2>>, <<1>>  >>

RxKeys == UNION {{<<i, j>> : j \in 1..Len(srcList[i])} : i \in 1..Len(srcList)}

nRx == Cardinality(RxKeys)

\* per-call trace of what a call did (reset at the start of every public call)
NoTrace ==
    [nFact |-> 0, nFwdSolve |-> 0, nSolve |-> 0, nAsm |-> 0, nForward |-> 0,
     nDot |-> 0, nDc |-> 0, usedF |-> {}, usedAinv |-> {}, usedJ |-> {},
     readEmpty |-> FALSE, solveCleaned |-> FALSE]

Ok(s, ret) == [s |-> s, ret |-> ret, err |-> "none"]

Raise(s, e) == [s |-> s, ret |-> NoneV, err |-> e]

(* --------------------------- model setter ------------------------------ *)

\* a toDelete list that names the caches
deleteTheseOnModelUpdate_Caches == {"_f", "Ainv", "_Jmatrix"}

\* the properties the model setter deletes: toDelete = []
deleteTheseOnModelUpdate == {}

\* self.model = m: when the model changes, the setter deletes the attributes
\* deleteTheseOnModelUpdate names
setModel(s, m) ==
    LET del(a) == s.model # m /\ a \in deleteTheseOnModelUpdate IN
    [s EXCEPT !.model = m,
              !.f = IF del("_f") THEN NoneV ELSE @,
              !.Ainv = IF del("Ainv") THEN NoneV ELSE @,
              !.Jmatrix = IF del("_Jmatrix") THEN NoneV ELSE @]

(* ------------------------- external collaborators ---------------------- *)

\* self.Ainv * rhs, n right-hand sides
Solve(s, n) ==
    IF s.Ainv = NoneV THEN Raise(s, "TypeError")
    ELSE LET s1 == [s EXCEPT !.g.usedAinv = @ \cup {s.Ainv.m}] IN
         IF s.Ainv.cleaned
         THEN LET s2 == [s1 EXCEPT !.g.solveCleaned = TRUE] IN
              IF s.cleanedRaises THEN Raise(s2, "SolverError")
              ELSE Ok([s2 EXCEPT !.g.nSolve = @ + n], NoneV)
         ELSE Ok([s1 EXCEPT !.g.nSolve = @ + n], NoneV)

\* f[src, self._solutionType]
ReadField(s, f) ==
    IF f = EmptyList THEN Raise([s EXCEPT !.g.readEmpty = TRUE], "TypeError")
    ELSE IF f = NoneV THEN Raise(s, "TypeError")
    ELSE Ok([s EXCEPT !.g.usedF = @ \cup {f.m}], NoneV)

\* rx.getP(mesh, loc): the projection matrix, kept in rx._Ps once computed
getP(s) ==
    [s EXCEPT !.rx = [r \in RxKeys |->
        IF s.rx[r].Ps = [k |-> "empty"]
        THEN [s.rx[r] EXCEPT !.Ps = [k |-> "P", dc |-> s.rx[r].dc_voltage]]
        ELSE s.rx[r]]]

(* ------------------------------ handlers ------------------------------- *)

\* The(S): the element of a one-element set.  The({B(r) : r \in {E}}) is
\* LET r == E IN B(r) with E computed once.
The(S) == CHOOSE x \in S : TRUE

\* the loops of _Jtvec after the first f[src, self._solutionType]
JtvecLoop(r1, n, ret) ==
    IF r1.err # "none" THEN r1
    ELSE The({IF r2.err # "none" THEN r2 ELSE Ok(r2.s, ret) : r2 \in {Solve(r1.s, n)}})

\* _Jtvec(m, v, f): one adjoint product (v given) or the full matrix (v None)
_Jtvec(s, m, v, f) ==
    IF v # NoneV
    THEN IF ~v.ok THEN Raise(s, "ValueError")
         ELSE The({JtvecLoop(r1, nRx, [k |-> "Jtv", via |-> "adjoint", src |-> f.m,
                                       v |-> v.val])
                   : r1 \in {ReadField(s, f)}})
    ELSE The({JtvecLoop(IF r1.err # "none" THEN r1 ELSE Ok(getP(r1.s), NoneV), nRx,
                        [k |-> "JtvFull", m |-> s.model.v, f |-> f.m])
              : r1 \in {ReadField([s EXCEPT !.g.nAsm = @ + 1], f)}})

\* getJ after _Jtvec(m, v=None, f) returned ra: cache the transpose, empty
\* the field object, clean the factorization
getJRelease(ra) ==
    IF ra.err # "none" THEN ra
    ELSE LET J == [k |-> "J", m |-> ra.ret.m, f |-> ra.ret.f] IN
         Ok([ra.s EXCEPT !.Jmatrix = J,
                         !.f = EmptyList,
                         !.Ainv = IF @ = NoneV THEN @
                                  ELSE [@ EXCEPT !.cleaned = TRUE]], J)

\* getJ from 'self._Jmatrix = (self._Jtvec(m, v=None, f=f)).T' on
getJAssemble(s, m, f) == The({getJRelease(ra) : ra \in {_Jtvec(s, m, NoneV, f)}})

\* getJ(m, f) called with a field object, as Jvec calls it under fields
getJWithField(s, m, f) ==
    The({IF s1.Jmatrix # NoneV THEN Ok(s1, s1.Jmatrix) ELSE getJAssemble(s1, m, f)
         : s1 \in {setModel(s, Model(m))}})

\* the storeJ branch of Jvec and Jtvec after getJ returned r:
\* sign * mkvc(np.dot(J, v)), kind "Jv", or sign * mkvc(np.dot(J.T, v)), kind "Jtv"
StoredProduct(r, v, kind) ==
    IF r.err # "none" THEN r
    ELSE IF ~v.ok THEN Raise(r.s, "ValueError")
    ELSE Ok([r.s EXCEPT !.g.nDot = @ + 1, !.g.usedJ = @ \cup {r.ret.m}],
            [k |-> kind, via |-> "stored", src |-> r.ret.m, v |-> v.val])

\* the source loop of Jvec without storeJ, after f[src, self._solutionType]
JvecLoop(r1, v, f) ==
    IF r1.err # "none" THEN r1
    ELSE IF ~v.ok THEN Raise(r1.s, "ValueError")
    ELSE The({IF r2.err # "none" THEN r2
              ELSE Ok(r2.s, [k |-> "Jv", via |-> "adjoint", src |-> f.m, v |-> v.val])
              : r2 \in {Solve(r1.s, Len(srcList))}})

\* Jvec(m, v, f) called with a field object, as forward calls it under fields
JvecWithField(s, m, v, f) ==
    The({IF s1.storeJ
         THEN The({StoredProduct(r, v, "Jv") : r \in {getJWithField(s1, m, f)}})
         ELSE The({JvecLoop(r1, v, f) : r1 \in {ReadField(s1, f)}})
         : s1 \in {setModel(s, Model(m))}})

\* forward(m, f) = Jvec(m, m, f), called by fields with f = self._f
forward(s, m, f) ==
    The({JvecWithField(s1, m, Vec(m, TRUE), f) : s1 \in {[s EXCEPT !.g.nForward = @ + 1]}})

\* the apparent_chargeability loop of fields: every receiver's baseline
\* voltage from the field just solved, its data type, and an empty _Ps
WriteBaseline(s, m) ==
    IF s.data_type = "apparent_chargeability"
    THEN [s EXCEPT !.g.nDc = @ + nRx,
                   !.rx = [x \in RxKeys |->
                              [dc_voltage |-> [k |-> "dc", f |-> m],
                               data_type |-> s.data_type,
                               Ps |-> [k |-> "empty"]]]]
    ELSE s

\* the block of fields run when self._f is None
ComputeFields(s, m) ==
    The({IF r.err # "none" THEN r
         ELSE The({Ok(WriteBaseline(s3, m), NoneV)
                   : s3 \in {[r.s EXCEPT !.g.nFwdSolve = @ + 1]}})
         : r \in {Solve(IF s.Ainv = NoneV
                        THEN [s EXCEPT !.f = FieldsObj(m), !.Ainv = Factorization(m),
                                       !.g.nFact = @ + 1]
                        ELSE [s EXCEPT !.f = FieldsObj(m)], 1)}})

\* the end of fields: self._pred = r.ret; return self._f
fieldsReturn(r) ==
    IF r.err # "none" THEN r ELSE Ok([r.s EXCEPT !.pred = r.ret], r.s.f)

\* fields from 'self._pred = self.forward(m, f=self._f)' on
fieldsTail(rc, m) ==
    IF rc.err # "none" THEN rc
    ELSE The({fieldsReturn(r) : r \in {forward(rc.s, m, rc.s.f)}})

\* fields with the forward solve run on every call
fields_SolvesEveryCall(s, m) ==
    The({fieldsTail(rc, m) : rc \in {ComputeFields(s, m)}})

\* fields with the baseline loop run on every call
fields_BaselineEveryCall(s, m) ==
    The({fieldsTail(rc, m)
         : rc \in {IF s.f = NoneV THEN ComputeFields(s, m)
                   ELSE Ok(WriteBaseline(s, m), NoneV)}})

\* fields(m)
fields(s, m) ==
    The({fieldsTail(rc, m)
         : rc \in {IF s.f = NoneV THEN ComputeFields(s, m) ELSE Ok(s, NoneV)}})

\* the end of dpred: return self._pred
dpredReturn(rf) == IF rf.err # "none" THEN rf ELSE Ok(rf.s, rf.s.pred)

\* dpred that returns _pred when it already holds the data of model m
dpred_ReturnsCached(s, m, f) ==
    IF f = NoneV /\ s.pred # NoneV /\ s.pred.v = m THEN Ok(s, s.pred)
    ELSE The({dpredReturn(rf) : rf \in {IF f = NoneV THEN fields(s, m) ELSE Ok(s, f)}})

\* dpred(m, f)
dpred(s, m, f) ==
    The({dpredReturn(rf) : rf \in {IF f = NoneV THEN fields(s, m) ELSE Ok(s, f)}})

\* 'if f is None: f = self.fields(m)' of getJ, Jvec and Jtvec
FieldsIfNone(s, m, f) == IF f = NoneV THEN fields(s, m) ELSE Ok(s, f)

\* getJ when self._Jmatrix is None
getJCompute(s1, m, f) ==
    The({IF rf.err # "none" THEN rf ELSE getJAssemble(rf.s, m, rf.ret)
         : rf \in {FieldsIfNone(s1, m, f)}})

\* getJ(m, f)
getJ(s, m, f) ==
    The({IF s1.Jmatrix # NoneV THEN Ok(s1, s1.Jmatrix) ELSE getJCompute(s1, m, f)
         : s1 \in {setModel(s, Model(m))}})

\* the adjoint-state branch of Jvec
JvecAdjoint(s1, m, v, f) ==
    The({IF rf.err # "none" THEN rf
         ELSE The({JvecLoop(r1, v, rf.ret) : r1 \in {ReadField(rf.s, rf.ret)}})
         : rf \in {FieldsIfNone(s1, m, f)}})

\* Jvec with the length of v checked on entry
Jvec_ChecksLengthFirst(s, m, v, f) ==
    IF ~v.ok THEN Raise(s, "ValueError")
    ELSE The({IF s1.storeJ
              THEN The({StoredProduct(r, v, "Jv") : r \in {getJ(s1, m, f)}})
              ELSE JvecAdjoint(s1, m, v, f)
              : s1 \in {setModel(s, Model(m))}})

\* Jvec(m, v, f)
Jvec(s, m, v, f) ==
    The({IF s1.storeJ
         THEN The({StoredProduct(r, v, "Jv") : r \in {getJ(s1, m, f)}})
         ELSE JvecAdjoint(s1, m, v, f)
         : s1 \in {setModel(s, Model(m))}})

\* the adjoint-state branch of Jtvec
JtvecAdjoint(s1, m, v, f) ==
    The({IF rf.err # "none" THEN rf ELSE _Jtvec(rf.s, m, v, rf.ret)
         : rf \in {FieldsIfNone(s1, m, f)}})

\* Jtvec(m, v, f)
Jtvec(s, m, v, f) ==
    IF s.storeJ
    THEN The({StoredProduct(r, v, "Jtv") : r \in {getJ(s, m, f)}})
    ELSE The({JtvecAdjoint(s1, m, v, f) : s1 \in {setModel(s, Model(m))}})

\* delete_these_for_sensitivity(): del self._Jmatrix, self._MfRhoI, self._MeSigma
delete_these_for_sensitivity(s, others) ==
    IF s.Jmatrix = NoneV THEN Raise(s, "AttributeError")
    ELSE LET s1 == [s EXCEPT !.Jmatrix = NoneV] IN
         IF others THEN Ok(s1, NoneV) ELSE Raise(s1, "AttributeError")

(* ------------------------------- Spec ---------------------------------- *)

RxInit ==
    {[dc_voltage |-> NoneV, data_type |-> "volt", Ps |-> [k |-> "empty"]],
     [dc_voltage |-> [k |-> "stale"], data_type |-> "volt", Ps |-> [k |-> "stale"]]}

LayIdle == [pc |-> "off"]

EqIdle == [pc |-> "off"]

Init ==
    /\ \E sj \in BOOLEAN, dt \in {"volt", "apparent_chargeability"},
          cr \in BOOLEAN, r0 \in RxInit :
          sim = [model |-> NoneV, f |-> NoneV, Ainv |-> NoneV, Jmatrix |-> NoneV,
                 pred |-> NoneV, storeJ |-> sj, data_type |-> dt,
                 cleanedRaises |-> cr, rx |-> [x \in RxKeys |-> r0],
                 g |-> NoTrace]
    /\ held = NoneV
    /\ last = [op |-> "init", m |-> 0, f |-> NoneV, v |-> NoneV, err |-> "none",
               ret |-> NoneV, g |-> NoTrace,
               prev |-> [op |-> "init", m |-> 0, err |-> "none", ret |-> NoneV]]
    /\ hist = [nCalls |-> 0, nAsm |-> 0, models |-> {}, deleted |-> FALSE]
    /\ lay = LayIdle
    /\ eq = EqIdle

\* the field objects a caller can pass: None, or the one fields last returned
FArgs == {NoneV, held}

\* the effect of one public call whose outcome is r
Record(op, m, f, v, r) ==
    /\ hist.nCalls < MaxCalls
    /\ sim' = [r.s EXCEPT !.g = NoTrace]
    /\ held' = IF op = "fields" /\ r.err = "none" THEN r.ret ELSE held
    /\ last' = [op |-> op, m |-> m, f |-> f, v |-> v, err |-> r.err, ret |-> r.ret,
                g |-> r.s.g,
                prev |-> [op |-> last.op, m |-> last.m, err |-> last.err,
                          ret |-> last.ret]]
    /\ hist' = [nCalls |-> hist.nCalls + 1,
                nAsm |-> hist.nAsm + r.s.g.nAsm,
                models |-> IF op = "delete" THEN hist.models ELSE hist.models \cup {m},
                deleted |-> hist.deleted \/ op = "delete"]
    /\ UNCHANGED <<lay, eq>>

CallFields ==
    \E m \in Models : \E r \in {fields(sim, m)} : Record("fields", m, NoneV, NoneV, r)

CallDpred ==
    \E m \in Models, f \in FArgs :
        \E r \in {dpred(sim, m, f)} : Record("dpred", m, f, NoneV, r)

CallGetJ ==
    \E m \in Models, f \in FArgs :
        \E r \in {getJ(sim, m, f)} : Record("getJ", m, f, NoneV, r)

CallJvec ==
    \E m \in Models, f \in FArgs, ok \in BOOLEAN :
        \E r \in {Jvec(sim, m, Vec(0, ok), f)} : Record("Jvec", m, f, Vec(0, ok), r)

CallJtvec ==
    \E m \in Models, f \in FArgs, ok \in BOOLEAN :
        \E r \in {Jtvec(sim, m, Vec(0, ok), f)} : Record("Jtvec", m, f, Vec(0, ok), r)

CallDelete ==
    \E others \in BOOLEAN :
        \E r \in {delete_these_for_sensitivity(sim, others)} :
            Record("delete", 0, NoneV, NoneV, r)

Next ==
    \/ CallFields
    \/ CallDpred
    \/ CallGetJ
    \/ CallJvec
    \/ CallJtvec
    \/ CallDelete

Spec == Init /\ [][Next]_vars

(* ---------------- SpecLayout: column layout of the full matrix --------- *)

\* sources per survey, receivers per source and observations per receiver
MaxSrc == 2

MaxRx == 2

MaxND == 2

\* a sequence given by a rule, as an explicit tuple
Tup(q) == SubSeq(q, 1, Len(q))

RECURSIVE SumSeq(_)
\* sum of a sequence of integers
SumSeq(q) == IF q = <<>> THEN 0 ELSE q[1] + SumSeq(Tail(q))

RECURSIVE Flatten(_, _)
\* the receivers of a survey in source-then-receiver enumeration order,
\* each as <<source index, receiver index, rx.nD>>
Flatten(sv, i) ==
    IF i > Len(sv) THEN <<>>
    ELSE Tup([j \in 1..Len(sv[i]) |-> <<i, j, sv[i][j]>>]) \o Flatten(sv, i + 1)

\* survey.nD
surveyND(sv) ==
    LET rxs == Flatten(sv, 1) IN SumSeq(Tup([k \in 1..Len(rxs) |-> rxs[k][3]]))

Unwritten == <<0, 0>>

\* the receiver loop with the cursor advanced by one column per receiver
AssembleRx_OneColumn(st, rx) ==
    LET iend == st.istrt + rx[3]
        cols == IF rx[3] = 1 THEN {st.istrt} ELSE st.istrt..(iend - 1)
    IN  [Jtv   |-> [c \in DOMAIN st.Jtv |->
                       IF c \in cols THEN <<rx[1], rx[2]>> ELSE st.Jtv[c]],
         istrt |-> st.istrt + 1,
         iend  |-> iend]

\* one pass of the receiver loop in the full-matrix branch of _Jtvec
AssembleRx(st, rx) ==
    LET iend == st.istrt + rx[3]
        cols == IF rx[3] = 1 THEN {st.istrt} ELSE st.istrt..(iend - 1)
    IN  [Jtv   |-> [c \in DOMAIN st.Jtv |->
                       IF c \in cols THEN <<rx[1], rx[2]>> ELSE st.Jtv[c]],
         istrt |-> st.istrt + rx[3],
         iend  |-> iend]

RECURSIVE AssembleLoop(_, _, _)
AssembleLoop(st, rxs, k) ==
    IF k > Len(rxs) THEN st ELSE AssembleLoop(AssembleRx(st, rxs[k]), rxs, k + 1)

\* the full-matrix branch of _Jtvec: which receiver wrote each column of the
\* (nC, nD) buffer, and where the cursors end
JtvecFullLayout(sv) ==
    AssembleLoop([Jtv |-> [c \in 0..(surveyND(sv) - 1) |-> Unwritten],
                  istrt |-> 0, iend |-> 0],
                 Flatten(sv, 1), 1)

RECURSIVE Blocks(_, _)
\* np.hstack(Jv): the blocks appended per receiver, one entry per observation
Blocks(rxs, k) ==
    IF k > Len(rxs) THEN <<>>
    ELSE Tup([c \in 1..rxs[k][3] |-> <<rxs[k][1], rxs[k][2]>>]) \o Blocks(rxs, k + 1)

\* the adjoint-state branch of Jvec: the receiver each entry of the result is from
JvecLayout(sv) ==
    IF Flatten(sv, 1) = <<>> THEN [err |-> "ValueError", Jv |-> <<>>]
    ELSE [err |-> "none", Jv |-> Blocks(Flatten(sv, 1), 1)]

RxLists == UNION {[1..n -> 1..MaxND] : n \in 0..MaxRx}

Surveys == UNION {[1..n -> RxLists] : n \in 0..MaxSrc}

SimIdle ==
    [model |-> NoneV, f |-> NoneV, Ainv |-> NoneV, Jmatrix |-> NoneV,
     pred |-> NoneV, storeJ |-> FALSE, data_type |-> "volt",
     cleanedRaises |-> FALSE,
     rx |-> [x \in RxKeys |-> [dc_voltage |-> NoneV, data_type |-> "volt",
                               Ps |-> [k |-> "empty"]]],
     g |-> NoTrace]

LastIdle ==
    [op |-> "init", m |-> 0, f |-> NoneV, v |-> NoneV, err |-> "none",
     ret |-> NoneV, g |-> NoTrace,
     prev |-> [op |-> "init", m |-> 0, err |-> "none", ret |-> NoneV]]

HistIdle == [nCalls |-> 0, nAsm |-> 0, models |-> {}, deleted |-> FALSE]

InitLayout ==
    /\ sim = SimIdle /\ held = NoneV /\ last = LastIdle /\ hist = HistIdle
    /\ eq = EqIdle
    /\ \E sv \in Surveys : lay = [pc |-> "survey", survey |-> sv]

\* getJ's call _Jtvec(m, v=None, f) on the survey
RunAssemble ==
    /\ lay.pc = "survey"
    /\ lay' = [pc |-> "full", survey |-> lay.survey,
               out |-> JtvecFullLayout(lay.survey)]
    /\ UNCHANGED <<sim, held, last, hist, eq>>

\* Jvec(m, v, f) without storeJ on the survey
RunJvec ==
    /\ lay.pc = "survey"
    /\ lay' = [pc |-> "jvec", survey |-> lay.survey,
               out |-> JvecLayout(lay.survey)]
    /\ UNCHANGED <<sim, held, last, hist, eq>>

NextLayout ==
    \/ RunAssemble
    \/ RunJvec

SpecLayout == InitLayout /\ [][NextLayout]_vars

\* offset of the k-th receiver in source-then-receiver order: the observation
\* counts of the receivers before it
Offset(rxs, k) == SumSeq(Tup([i \in 1..(k - 1) |-> rxs[i][3]]))

\* C7: in the full-matrix branch the k-th receiver in source-then-receiver
\* order owns exactly the columns Offset..Offset+nD-1, every column of
\* 0..nD-1 is written, the cursor ends at survey.nD, and entry c of Jvec's
\* result comes from the receiver that owns column c.
C7_SourceThenReceiverLayout ==
    LET rxs == Flatten(lay.survey, 1) IN
    /\ lay.pc = "full" =>
          /\ \A k \in 1..Len(rxs) :
                {c \in DOMAIN lay.out.Jtv : lay.out.Jtv[c] = <<rxs[k][1], rxs[k][2]>>}
                    = Offset(rxs, k)..(Offset(rxs, k) + rxs[k][3] - 1)
          /\ \A c \in DOMAIN lay.out.Jtv : lay.out.Jtv[c] # Unwritten
          /\ lay.out.istrt = surveyND(lay.survey)
    /\ (lay.pc = "jvec" /\ lay.out.err = "none") =>
          LET own == JtvecFullLayout(lay.survey).Jtv IN
          /\ Len(lay.out.Jv) = surveyND(lay.survey)
          /\ \A c \in 1..Len(lay.out.Jv) : lay.out.Jv[c] = own[c - 1]

C7_Witness ==
    /\ lay.pc = "full"
    /\ Len(lay.survey) = 2
    /\ Len(lay.survey[1]) = 2 /\ lay.survey[1][1] = 2 /\ lay.survey[1][2] = 1
    /\ Len(lay.survey[2]) = 1 /\ lay.survey[2][1] = 2
    /\ lay.out.Jtv[3] = <<2, 1>> /\ lay.out.Jtv[2] = <<1, 2>>

(* ------------- SpecEquiv: the values of Jvec on its two paths ---------- *)

\* matrix entries are drawn from 0..MaxEntry, entries of v from -MaxEntry..MaxEntry
MaxEntry == 1

\* matrices are sequences of rows; a vector is a one-column matrix
Col(M, j) == Tup([i \in 1..Len(M) |-> M[i][j]])

Transpose(M) == Tup([j \in 1..Len(M[1]) |-> Col(M, j)])

MatMul(A, B) ==
    Tup([i \in 1..Len(A) |-> Tup([j \in 1..Len(B[1]) |->
        SumSeq(Tup([k \in 1..Len(B) |-> A[i][k] * B[k][j]]))])])

Scale(a, M) == Tup([i \in 1..Len(M) |-> Tup([j \in 1..Len(M[i]) |-> a * M[i][j]])])

Add(A, B) == Tup([i \in 1..Len(A) |-> Tup([j \in 1..Len(A[i]) |-> A[i][j] + B[i][j]])])

\* utils.sdiag: the diagonal matrix of a vector
sdiag(u) ==
    Tup([i \in 1..Len(u) |-> Tup([j \in 1..Len(u) |-> IF i = j THEN u[i][1] ELSE 0])])

\* utils.mkvc: a one-column matrix as a flat vector
mkvc(M) == Col(M, 1)

\* utils.Zero as a vector of n entries
Zero(n) == Tup([i \in 1..n |-> <<0>>])

\* np.vstack of the receivers' blocks (np.hstack of flat vectors)
RECURSIVE hstack(_)
hstack(blocks) == IF blocks = <<>> THEN <<>> ELSE blocks[1] \o hstack(Tail(blocks))

\* Problem3D_CC.sign = 1., Problem3D_N.sign = -1.
sign(variant) == IF variant = "HJ" THEN 1 ELSE -1

\* MeSigmaDeriv(u, v, adjoint) with storeInnerProduct
MeSigmaDeriv(c, u, v, adjoint) ==
    IF adjoint THEN MatMul(Transpose(c.DerivMat), MatMul(sdiag(u), v))
    ELSE MatMul(sdiag(u), MatMul(c.DerivMat, v))

\* MfRhoIDeriv(u, v, adjoint) with storeInnerProduct
MfRhoIDeriv(c, u, v, adjoint) ==
    LET dMfRhoI_dI == Scale(-1, MatMul(c.MfRhoI, c.MfRhoI)) IN
    IF adjoint
    THEN MatMul(Transpose(c.DerivMat), MatMul(sdiag(u), MatMul(Transpose(dMfRhoI_dI), v)))
    ELSE MatMul(dMfRhoI_dI, MatMul(sdiag(u), MatMul(c.DerivMat, v)))

\* getADeriv(u, v, adjoint) of the formulation, on a mesh whose gradient and
\* divergence are the identity
getADeriv(c, u, v, adjoint) ==
    IF c.variant = "EB" THEN MeSigmaDeriv(c, u, v, adjoint)
    ELSE MfRhoIDeriv(c, u, v, adjoint)

\* getRHSDeriv(src, v): the source term does not depend on the chargeability
getRHSDeriv(c, v) == Zero(Len(c.Ainv))

\* f[src, 'phiSolution'] = Ainv * RHS
uSrc(c) == MatMul(c.Ainv, c.q)

\* the field's _phiDeriv: the derivative of phi is the derivative of the solution
phiDeriv(du) == du

\* Jvec(m, v, f) without storeJ: sign * hstack of rx.evalDeriv = P * df_dm_v
JvecAdjointValue(c) ==
    LET dA_dm_v   == getADeriv(c, uSrc(c), c.v, FALSE)
        dRHS_dm_v == getRHSDeriv(c, c.v)
        du_dm_v   == MatMul(c.Ainv, Add(Scale(-1, dA_dm_v), dRHS_dm_v))
        Jv == Tup([r \in 1..Len(c.P) |-> mkvc(MatMul(c.P[r], phiDeriv(du_dm_v)))])
        st == hstack(Jv)
    IN  Tup([i \in 1..Len(st) |-> sign(c.variant) * st[i]])

\* the block a receiver writes in the full-matrix branch of _Jtvec: -dA_dmT
FullBlock(c, r) ==
    LET ATinvdf_duT == MatMul(c.Ainv, Transpose(c.P[r])) IN
    Scale(-1, getADeriv(c, uSrc(c), ATinvdf_duT, TRUE))

\* the survey of SpecEquiv: one source, its receivers' nD the row counts of P
EquivSurvey(c) == << [r \in 1..Len(c.P) |-> Len(c.P[r])] >>

\* _Jtvec(m, v=None, f): the (nC, nD) buffer after the loop
JtvecFullValue(c) ==
    LET sv  == EquivSurvey(c)
        own == JtvecFullLayout(sv).Jtv
        rxs == Flatten(sv, 1)
        blk == Tup([r \in 1..Len(c.P) |-> FullBlock(c, r)])
    IN  Tup([i \in 1..Len(c.v) |-> Tup([j \in 1..surveyND(sv) |->
            IF own[j - 1] = Unwritten THEN 0
            ELSE LET r == own[j - 1][2] IN blk[r][i][j - Offset(rxs, r)]])])

\* getJ(m, f): the transposed buffer
getJValue(c) == Transpose(JtvecFullValue(c))

\* the stored path without the sign factor
JvecStoredValue_NoSign(c) == mkvc(MatMul(getJValue(c), c.v))

\* Jvec(m, v, f) with storeJ: sign * mkvc(np.dot(J, v))
JvecStoredValue(c) == mkvc(Scale(sign(c.variant), MatMul(getJValue(c), c.v)))

Entries == 0..MaxEntry

\* symmetric nonsingular 2 x 2 inverses
AinvSet ==
    {<< <<a, b>>, <<b, d>> >> : a \in Entries, b \in Entries, d \in Entries}
        \ {M \in {<< <<a, b>>, <<b, d>> >> : a \in Entries, b \in Entries, d \in Entries} :
              M[1][1] * M[2][2] = M[1][2] * M[2][1]}

DerivMatSet == {<< <<a, b>>, <<0, 1>> >> : a \in Entries, b \in Entries}

PSet == {<< << <<a, 1>> >>, << <<0, 1>>, <<1, 1>> >> >> : a \in Entries}

VSet == {<< <<a>>, <<b>> >> : a \in -MaxEntry..MaxEntry, b \in -MaxEntry..MaxEntry}

InitEquiv ==
    /\ sim = SimIdle /\ held = NoneV /\ last = LastIdle /\ hist = HistIdle
    /\ lay = LayIdle
    /\ \E vr \in {"HJ", "EB"}, A \in AinvSet, E \in DerivMatSet, P \in PSet, v \in VSet :
          eq = [pc |-> "in",
                c |-> [variant |-> vr, Ainv |-> A, DerivMat |-> E, P |-> P, v |-> v,
                       q |-> << <<1>>, <<-1>> >>,
                       MfRhoI |-> << <<1, 0>>, <<0, 2>> >>],
                doneA |-> FALSE, doneS |-> FALSE, JvA |-> <<>>, JvS |-> <<>>]

\* Jvec(m, v, f) with storeJ disabled
EvalJvecAdjoint ==
    /\ eq.pc = "in" /\ ~eq.doneA
    /\ eq' = [eq EXCEPT !.doneA = TRUE, !.JvA = JvecAdjointValue(eq.c)]
    /\ UNCHANGED <<sim, held, last, hist, lay>>

\* Jvec(m, v, f) with storeJ enabled
EvalJvecStored ==
    /\ eq.pc = "in" /\ ~eq.doneS
    /\ eq' = [eq EXCEPT !.doneS = TRUE, !.JvS = JvecStoredValue(eq.c)]
    /\ UNCHANGED <<sim, held, last, hist, lay>>

NextEquiv ==
    \/ EvalJvecAdjoint
    \/ EvalJvecStored

SpecEquiv == InitEquiv /\ [][NextEquiv]_vars

CoreOps == {"fields", "dpred", "getJ", "Jvec", "Jtvec"}

C3_FieldsIdempotent ==
    (last.op = "fields" /\ last.prev.op = "fields" /\ last.prev.m = last.m) =>
        /\ last.g.nFact = 0
        /\ last.g.nFwdSolve = 0
        /\ (last.err = "none" /\ last.prev.err = "none") => last.ret = last.prev.ret

C3_Witness ==
    /\ last.op = "fields" /\ last.prev.op = "fields" /\ last.prev.m = last.m
    /\ last.err = "none" /\ last.prev.err = "none"
    /\ last.ret.k = "Fields"
    /\ ~sim.storeJ

\* C4: while every call so far used one model (and nothing was deleted by
\* hand), the full-matrix assembly _Jtvec(m, v=None) has run at most once.
C4_AssembledOncePerModel ==
    (~hist.deleted /\ Cardinality(hist.models) <= 1) => hist.nAsm <= 1

\* C5: a dpred(m) call made when self._pred already holds the predicted data
\* of model m, which is the current model, evaluates no forward and solves
\* nothing.
C5_DpredUsesCache ==
    [][(/\ last'.op = "dpred"
        /\ sim.pred # NoneV
        /\ sim.pred.v = last'.m
        /\ sim.model = Model(last'.m))
       => (last'.g.nForward = 0 /\ last'.g.nSolve = 0)]_vars

\* C5 as amended: dpred called without a field always runs fields, which
\* evaluates forward once more and overwrites _pred, also when _pred already
\* holds the data of that model; dpred called with a field evaluates nothing
\* and returns _pred as it is.
C5_DpredRecomputes ==
    last.op = "dpred" =>
        /\ last.f = NoneV => last.g.nForward = 1
        /\ last.f # NoneV => (/\ last.g.nForward = 0 /\ last.g.nSolve = 0
                              /\ last.err = "none")
        /\ last.err = "none" => last.ret = sim.pred

C5_Witness ==
    /\ last.op = "dpred" /\ last.f = NoneV /\ last.err = "none"
    /\ last.prev.op = "dpred" /\ last.prev.m = last.m /\ last.prev.err = "none"
    /\ last.prev.ret = last.ret
    /\ last.g.nForward = 1 /\ last.g.nSolve > 0

\* C6: Jvec or Jtvec called with a vector of the wrong length ends in a size
\* error before any factorization, solve, assembly or matrix product, and
\* leaves the field object, factorization, predicted data and Jacobian as
\* they were.
C6_ShapeMismatchFailsFast ==
    [][(last'.op \in {"Jvec", "Jtvec"} /\ ~last'.v.ok)
       => (/\ last'.err = "ValueError"
           /\ last'.g.nFact = 0 /\ last'.g.nSolve = 0
           /\ last'.g.nAsm = 0 /\ last'.g.nDot = 0
           /\ sim'.f = sim.f /\ sim'.Ainv = sim.Ainv
           /\ sim'.pred = sim.pred /\ sim'.Jmatrix = sim.Jmatrix)]_vars

\* C6 as amended: the length of v is not checked on entry.  A Jvec or Jtvec
\* call with a vector of the wrong length never returns a value; when it is
\* given no field and ends in the size error, getJ (with storeJ) or fields
\* (without) has already run, so the Jacobian is cached or the forward
\* evaluation done by then.
C6_ShapeMismatchFailsLate ==
    (last.op \in {"Jvec", "Jtvec"} /\ ~last.v.ok) =>
        /\ last.err # "none"
        /\ (last.err = "ValueError" /\ last.f = NoneV) =>
              IF sim.storeJ THEN sim.Jmatrix # NoneV ELSE last.g.nForward = 1

C6_Witness ==
    /\ last.op = "Jvec" /\ ~last.v.ok /\ last.f = NoneV
    /\ last.err = "ValueError"
    /\ last.g.nFact = 1 /\ last.g.nFwdSolve = 1 /\ last.g.nSolve > 1
    /\ sim.pred # NoneV

\* C9: a receiver's baseline voltage and projection cache are written by a
\* step exactly when that step solves the forward system afresh with data
\* type apparent_chargeability; such a step writes the baseline of every
\* receiver from the fresh field; every other step leaves every baseline as
\* it was, whatever model it is called with.
C9_BaselineWrittenOnlyByFreshFields ==
    [][LET fresh == last'.g.nFwdSolve > 0 /\ sim.data_type = "apparent_chargeability"
       IN  /\ fresh => \A r \in RxKeys :
                         /\ sim'.rx[r].dc_voltage = [k |-> "dc", f |-> last'.m]
                         /\ sim'.rx[r].Ps \in {[k |-> "empty"],
                                               [k |-> "P", dc |-> sim'.rx[r].dc_voltage]}
           /\ ~fresh => \A r \in RxKeys :
                          /\ sim'.rx[r].dc_voltage = sim.rx[r].dc_voltage
                          /\ last'.g.nDc = 0]_vars

C9_Witness ==
    /\ sim.data_type = "apparent_chargeability"
    /\ last.op \in {"dpred", "Jvec", "Jtvec", "getJ"}
    /\ last.err = "none"
    /\ last.g.nFwdSolve = 0 /\ last.g.nDc = 0
    /\ \A r \in RxKeys : /\ sim.rx[r].dc_voltage.k = "dc"
                         /\ sim.rx[r].dc_voltage.f # last.m

\* C10: no call solves with a cleaned factorization, none reads a source's
\* solution from the emptied field object, and fields never returns the
\* emptied object.
C10_NoUseAfterRelease ==
    /\ ~last.g.solveCleaned
    /\ ~last.g.readEmpty
    /\ ~(last.op = "fields" /\ last.err = "none" /\ last.ret = EmptyList)

====
